---- MODULE Spec2Model ----
(***************************************************************************)
(* Model of the omnivore-sync Joplin plugin entry point (src/src/index.ts): *)
(* the settings it registers, the two commands (reset sync data, run sync  *)
(* now), the recurring timers created by setupScheduledSync and the        *)
(* settings change listener.  The sync engine (syncArticles, ./sync) is    *)
(* not part of the source tree; it is modelled from its specified          *)
(* contract: the sync state is loaded once when a run starts and committed *)
(* once at the end of a successful run.                                    *)
(***************************************************************************)
EXTENDS Integers, Sequences, FiniteSets, Bags, TLC

\* ---------------------------------------------------------------- bounds
MaxInterval == 1        \* syncInterval ranges over 0..MaxInterval minutes
MaxTimers   == 2        \* setInterval timers alive at once
MaxRuns     == 2        \* syncArticles invocations in flight at once
MaxDate     == 1        \* timestamps 1..MaxDate
MaxArticle  == 1        \* remote article identifiers 1..MaxArticle
MaxHighlight == 1       \* remote highlight identifiers 1..MaxHighlight

\* ------------------------------------------------------ registered values
NoKey == ""                         \* omnivoreApiKey default
ApiKeys == {"k1", "k2"}             \* non-empty keys a user may enter
EmptyDate == 0                      \* lastSyncDate default ''
EmptyItems == {}                    \* syncedItems default '[]'
EmptyHighlights == {}               \* syncedHighlights default '{}'
DialogOK == 0                       \* showMessageBox result for OK
DialogCancel == 1                   \* showMessageBox result for Cancel
DialogPending == -1                 \* the dialog has not been answered

Dates == 0..MaxDate
ArticleIds == 1..MaxArticle
HighlightIds == 1..MaxHighlight

VARIABLES
    omnivoreApiKey,     \* setting 'omnivoreApiKey'
    syncInterval,       \* setting 'syncInterval' (minutes)
    lastSyncDate,       \* setting 'lastSyncDate'
    syncedItems,        \* setting 'syncedItems'
    syncedHighlights,   \* setting 'syncedHighlights'
    timers,             \* periods (ms) of the setInterval timers, oldest first
    runs,               \* bag of the syncArticles invocations in flight
    resetPc,            \* position of resetOmnivoreSyncData.execute
    resetResult,        \* answer of its confirmation dialog
    resetDirty,         \* a write of the reset in progress changed a value
    resetCompleted,     \* a confirmed reset has cleared all three values
                        \* and no run has started since
    lastEvent,          \* what the last trigger or run end did
    heading             \* a heading element given to the heading rule

vars == <<omnivoreApiKey, syncInterval, lastSyncDate, syncedItems,
          syncedHighlights, timers, runs, resetPc, resetResult,
          resetDirty, resetCompleted, lastEvent, heading>>

settings == <<omnivoreApiKey, syncInterval>>
syncState == <<lastSyncDate, syncedItems, syncedHighlights>>

\* The persisted sync state as one record.
Persisted ==
    [date |-> lastSyncDate, items |-> syncedItems, hl |-> syncedHighlights]

FirstInstall ==
    [date |-> EmptyDate, items |-> EmptyItems, hl |-> EmptyHighlights]

\* ------------------------------------------------------------- scheduler
\* setupScheduledSync: reads syncInterval; a positive interval creates one
\* more setInterval timer of interval * 60 * 1000 ms.  Nothing is cleared.
setupScheduledSync(ts, interval) ==
    IF interval > 0 THEN Append(ts, interval * 60 * 1000) ELSE ts

\* settings.onChange listener: runs setupScheduledSync on every change
\* notification, whichever setting changed.
onChange(ts, interval) == setupScheduledSync(ts, interval)

\* The host notifies the listener when a stored value changes.
Notify(changed, ts, interval) ==
    IF changed THEN onChange(ts, interval) ELSE ts

\* (variant: a rejected callback takes the timers down)
TimersClearedOnRejection(ts) == <<>>

\* A rejected timer callback leaves the timers in place: the callback has
\* no catch and never calls clearInterval.
TimersAfterRejection(ts) == ts

\* ------------------------------------------------------------ sync engine
\* new OmnivoreClient(apiKey)
OmnivoreClient(apiKey) == apiKey

\* syncArticles(client, turndownService): a run starts by loading the sync
\* state once.
syncArticles(rs, client, st) ==
    rs (+) SetToBag({[client |-> client, snap |-> st]})

\* (variant: the command invokes the engine twice)
ManualInvokeTwice(rs, apiKey, st) ==
    IF apiKey = NoKey THEN rs
    ELSE syncArticles(syncArticles(rs, OmnivoreClient(apiKey), st),
                      OmnivoreClient(apiKey), st)

\* syncOmnivoreArticles.execute
ManualInvoke(rs, apiKey, st) ==
    IF apiKey = NoKey THEN rs ELSE syncArticles(rs, OmnivoreClient(apiKey), st)

\* (variant: the callback does not look at the key)
TickInvokeUnchecked(rs, apiKey, st) ==
    syncArticles(rs, OmnivoreClient(apiKey), st)

\* (variant: the callback keeps the empty key of the time it was created)
TickInvokeStaleKey(rs, apiKey, st) == rs

\* the setInterval callback
TickInvoke(rs, apiKey, st) ==
    IF apiKey # NoKey THEN syncArticles(rs, OmnivoreClient(apiKey), st) ELSE rs

\* console.error in the two trigger paths
ManualReportsError(apiKey) == apiKey = NoKey
TickReportsError(apiKey) == FALSE

\* (variant: the reset ignores the answer)
ResetConfirmedAny(result) == TRUE

\* the reset continues to the writes only on OK
ResetConfirmed(result) == result = DialogOK

\* Number of runs in flight.
InFlight(rs) == BagCardinality(rs)

\* The record of the last trigger (manual command or timer tick) or run
\* end; tog flips at each trigger.
Trigger(op, err) == [op |-> op, error |-> err, tog |-> 1 - lastEvent.tog]
RunEnd(op) == [op |-> op, error |-> FALSE, tog |-> lastEvent.tog]

\* ---------------------------------------------------- content converter
MaxPieces == 4          \* pieces a heading content is put together from

\* Strings are sequences of one-character strings.  Heading contents are
\* concatenations of at most MaxPieces of these pieces.
Pieces ==
    {<<"[">>, <<"]">>, <<"(">>, <<")">>, <<"a">>, <<" ">>,
     <<"[", "]">>, <<"(", "a", ")">>}

RECURSIVE ContentsUpTo(_)
ContentsUpTo(n) ==
    IF n = 0 THEN {<<>>}
    ELSE LET shorter == ContentsUpTo(n - 1)
         IN  shorter \cup {c \o p : c \in shorter, p \in Pieces}

HeadingContents == ContentsUpTo(MaxPieces)

\* filter: ['h1', 'h2', 'h3', 'h4', 'h5', 'h6'], as node names
NodeNames == {<<"H", d>> : d \in {"1", "2", "3", "4", "5", "6"}}

\* String.prototype.charAt (0-based; '' past the end)
charAt(str, i) == IF i + 1 <= Len(str) THEN str[i + 1] ELSE ""

\* Number(c) for a decimal digit c
DigitChars == <<"0", "1", "2", "3", "4", "5", "6", "7", "8", "9">>
Number(c) == (CHOOSE k \in 1..Len(DigitChars) : DigitChars[k] = c) - 1

\* (variant: the level is one more than the digit of the node name)
hLevelOffByOne(nodeName) == Number(charAt(nodeName, 1)) + 1

\* Number(node.nodeName.charAt(1))
hLevel(nodeName) == Number(charAt(nodeName, 1))

\* Where a match of /\[]\([^)]+\)/ that starts at i ends (the index of its
\* closing parenthesis), 0 when there is no match at i.
MatchEnd(str, i) ==
    IF /\ i + 4 <= Len(str)
       /\ str[i] = "[" /\ str[i + 1] = "]" /\ str[i + 2] = "("
       /\ str[i + 3] # ")"
       /\ \E j \in (i + 4)..Len(str) : str[j] = ")"
    THEN CHOOSE j \in (i + 4)..Len(str) :
            /\ str[j] = ")"
            /\ \A k \in (i + 4)..(j - 1) : str[k] # ")"
    ELSE 0

\* content.replace(/\[]\([^)]+\)/g, ''): one left-to-right pass that drops
\* each match and resumes after it.
RECURSIVE ReplaceFrom(_, _)
ReplaceFrom(str, i) ==
    IF i > Len(str) THEN <<>>
    ELSE IF MatchEnd(str, i) > 0 THEN ReplaceFrom(str, MatchEnd(str, i) + 1)
    ELSE <<str[i]>> \o ReplaceFrom(str, i + 1)

cleanContent(content) == ReplaceFrom(content, 1)

\* White space for String.prototype.trim
IsSpace(c) == c \in {" ", "\n", "\t", "\r"}

RECURSIVE trimStart(_)
trimStart(str) ==
    IF str # <<>> /\ IsSpace(Head(str)) THEN trimStart(Tail(str)) ELSE str

RECURSIVE trimEnd(_)
trimEnd(str) ==
    IF str # <<>> /\ IsSpace(str[Len(str)])
    THEN trimEnd(SubSeq(str, 1, Len(str) - 1))
    ELSE str

\* String.prototype.trim
trim(str) == trimEnd(trimStart(str))

\* String.prototype.repeat
repeat(c, n) == [k \in 1..n |-> c]

\* the heading rule's replacement function
replacement(content, nodeName) ==
    <<"\n", "\n">> \o repeat("#", hLevel(nodeName)) \o <<" ">>
        \o trim(cleanContent(content)) \o <<"\n", "\n">>

\* No heading is being converted.
NoHeading == [pc |-> "none", nodeName |-> <<>>, content |-> <<>>,
              output |-> <<>>]

\* ------------------------------------------------------------------ Init
\* The state when onStart returns: the settings hold whatever an earlier
\* session left (the registered defaults on first install), and
\* setupScheduledSync has run once.
Init ==
    /\ omnivoreApiKey \in {NoKey} \cup ApiKeys
    /\ syncInterval \in 0..MaxInterval
    /\ lastSyncDate \in Dates
    /\ syncedItems \in SUBSET ArticleIds
    /\ syncedHighlights \in SUBSET HighlightIds
    /\ timers = setupScheduledSync(<<>>, syncInterval)
    /\ runs = EmptyBag
    /\ resetPc = "idle"
    /\ resetResult = DialogPending
    /\ resetDirty = FALSE
    /\ resetCompleted = FALSE
    /\ lastEvent = [op |-> "start", error |-> FALSE, tog |-> 0]
    /\ heading = NoHeading

\* --------------------------------------------------------------- actions
\* The user edits the API key in the settings screen.
SetApiKey(k) ==
    /\ k # omnivoreApiKey
    /\ omnivoreApiKey' = k
    /\ timers' = Notify(TRUE, timers, syncInterval)
    /\ Len(timers') <= MaxTimers
    /\ UNCHANGED <<heading, syncInterval, syncState, runs, resetPc, resetResult,
                   resetDirty, resetCompleted, lastEvent>>

\* The user edits the sync interval.
SetSyncInterval(i) ==
    /\ i # syncInterval
    /\ syncInterval' = i
    /\ timers' = Notify(TRUE, timers, i)
    /\ Len(timers') <= MaxTimers
    /\ UNCHANGED <<heading, omnivoreApiKey, syncState, runs, resetPc, resetResult,
                   resetDirty, resetCompleted, lastEvent>>

\* The user edits one of the other public settings (syncType,
\* targetNotebook, userTimezone, ...).
SetOtherSetting ==
    /\ timers' = Notify(TRUE, timers, syncInterval)
    /\ timers' # timers
    /\ Len(timers') <= MaxTimers
    /\ UNCHANGED <<heading, settings, syncState, runs, resetPc, resetResult,
                   resetDirty, resetCompleted, lastEvent>>

\* syncOmnivoreArticles.execute
ManualSync ==
    /\ runs' = ManualInvoke(runs, omnivoreApiKey, Persisted)
    /\ InFlight(runs') <= MaxRuns
    /\ lastEvent' = Trigger("manual", ManualReportsError(omnivoreApiKey))
    /\ resetCompleted' = (resetCompleted /\ runs' = runs)
    /\ UNCHANGED <<heading, settings, syncState, timers, resetPc, resetResult,
                   resetDirty>>

\* One of the timers fires.
TimerTick ==
    /\ \E t \in 1..Len(timers) :
        /\ runs' = TickInvoke(runs, omnivoreApiKey, Persisted)
        /\ InFlight(runs') <= MaxRuns
        /\ lastEvent' = Trigger("tick", TickReportsError(omnivoreApiKey))
        /\ resetCompleted' = (resetCompleted /\ runs' = runs)
    /\ UNCHANGED <<heading, settings, syncState, timers, resetPc, resetResult,
                   resetDirty>>

\* A run ends successfully: the sync state it loaded, extended by what it
\* processed, is committed in one write.
RunCommit ==
    \E r \in BagToSet(runs), d \in Dates,
       as \in SUBSET ArticleIds, hs \in SUBSET HighlightIds :
        /\ d >= r.snap.date
        /\ lastSyncDate' = d
        /\ syncedItems' = r.snap.items \cup as
        /\ syncedHighlights' = r.snap.hl \cup hs
        /\ runs' = runs (-) SetToBag({r})
        /\ timers' = Notify(syncState' # syncState, timers, syncInterval)
        /\ Len(timers') <= MaxTimers
        /\ lastEvent' = RunEnd("commit")
        /\ UNCHANGED <<heading, settings, resetPc, resetResult, resetDirty,
                       resetCompleted>>

\* A run fails (syncArticles rejects): nothing is committed.
RunFail ==
    \E r \in BagToSet(runs) :
        /\ runs' = runs (-) SetToBag({r})
        /\ timers' = TimersAfterRejection(timers)
        /\ lastEvent' = RunEnd("fail")
        /\ UNCHANGED <<heading, settings, syncState, resetPc, resetResult,
                       resetDirty, resetCompleted>>

\* resetOmnivoreSyncData.execute: the confirmation dialog opens.
ResetExecute ==
    /\ resetPc = "idle"
    /\ resetPc' = "confirm"
    /\ resetResult' = DialogPending
    /\ UNCHANGED <<heading, settings, syncState, timers, runs, resetDirty,
                   resetCompleted, lastEvent>>

\* The user answers the confirmation dialog.
ResetAnswer(result) ==
    /\ resetPc = "confirm"
    /\ resetResult' = result
    /\ resetPc' = IF ResetConfirmed(result) THEN "w1" ELSE "idle"
    /\ resetDirty' = FALSE
    /\ UNCHANGED <<heading, settings, syncState, timers, runs, resetCompleted,
                   lastEvent>>

\* setValue('lastSyncDate', '')
ResetWrite1 ==
    /\ resetPc = "w1"
    /\ lastSyncDate' = EmptyDate
    /\ timers' = Notify(lastSyncDate' # lastSyncDate, timers, syncInterval)
    /\ Len(timers') <= MaxTimers
    /\ resetPc' = "w2"
    /\ resetDirty' = (resetDirty \/ lastSyncDate' # lastSyncDate)
    /\ UNCHANGED <<heading, settings, syncedItems, syncedHighlights, runs,
                   resetResult, resetCompleted, lastEvent>>

\* setValue('syncedItems', '[]')
ResetWrite2 ==
    /\ resetPc = "w2"
    /\ syncedItems' = EmptyItems
    /\ timers' = Notify(syncedItems' # syncedItems, timers, syncInterval)
    /\ Len(timers') <= MaxTimers
    /\ resetPc' = "w3"
    /\ resetDirty' = (resetDirty \/ syncedItems' # syncedItems)
    /\ UNCHANGED <<heading, settings, lastSyncDate, syncedHighlights, runs,
                   resetResult, resetCompleted, lastEvent>>

\* setValue('syncedHighlights', '{}'), then the log line
ResetWrite3 ==
    /\ resetPc = "w3"
    /\ syncedHighlights' = EmptyHighlights
    /\ timers' = Notify(syncedHighlights' # syncedHighlights, timers,
                        syncInterval)
    /\ Len(timers') <= MaxTimers
    /\ resetPc' = "notice"
    /\ resetCompleted' = TRUE
    /\ resetDirty' = FALSE
    /\ UNCHANGED <<heading, settings, lastSyncDate, syncedItems, runs, resetResult,
                   lastEvent>>

\* The user dismisses the closing message box.
ResetDone ==
    /\ resetPc = "notice"
    /\ resetPc' = "idle"
    /\ UNCHANGED <<heading, settings, syncState, timers, runs, resetResult,
                   resetDirty, resetCompleted, lastEvent>>

\* The heading rule is applied to a heading element.
ConvertHeading ==
    /\ heading.pc = "node"
    /\ heading' = [heading EXCEPT
                      !.pc = "done",
                      !.output = replacement(heading.content,
                                             heading.nodeName)]
    /\ UNCHANGED <<settings, syncState, timers, runs, resetPc, resetResult,
                   resetDirty, resetCompleted, lastEvent>>

Next ==
    \/ \E k \in {NoKey} \cup ApiKeys : SetApiKey(k)
    \/ \E i \in 0..MaxInterval : SetSyncInterval(i)
    \/ SetOtherSetting
    \/ ManualSync
    \/ TimerTick
    \/ RunCommit
    \/ RunFail
    \/ ResetExecute
    \/ \E result \in {DialogOK, DialogCancel} : ResetAnswer(result)
    \/ ResetWrite1
    \/ ResetWrite2
    \/ ResetWrite3
    \/ ResetDone

Spec == Init /\ [][Next]_vars

\* The converter on its own: a heading element with any of the bounded
\* contents and node names, in a freshly installed plugin.
HeadingInit ==
    /\ omnivoreApiKey = NoKey
    /\ syncInterval = 0
    /\ lastSyncDate = EmptyDate
    /\ syncedItems = EmptyItems
    /\ syncedHighlights = EmptyHighlights
    /\ timers = <<>>
    /\ runs = EmptyBag
    /\ resetPc = "idle"
    /\ resetResult = DialogPending
    /\ resetDirty = FALSE
    /\ resetCompleted = FALSE
    /\ lastEvent = [op |-> "start", error |-> FALSE, tog |-> 0]
    /\ heading \in [pc : {"node"}, nodeName : NodeNames,
                     content : HeadingContents, output : {<<>>}]

HeadingNext == ConvertHeading

HeadingSpec == HeadingInit /\ [][HeadingNext]_vars

\* ------------------------------------------------------ step predicates
\* A step of one of the two triggers.
ManualStep == lastEvent'.tog # lastEvent.tog /\ lastEvent'.op = "manual"
TickStep == lastEvent'.tog # lastEvent.tog /\ lastEvent'.op = "tick"
TriggerStep == ManualStep \/ TickStep

\* A trigger step that starts a run.
RunStartStep == TriggerStep /\ InFlight(runs') > InFlight(runs)

\* A step of resetOmnivoreSyncData.execute.
ResetStep == resetPc' # resetPc

\* Between the writes of a reset: at least one value has been cleared by
\* it and at least one of the values still to be written is not clear.
PartiallyCleared ==
    /\ resetDirty
    /\ \/ resetPc = "w2" /\ (syncedItems # EmptyItems
                             \/ syncedHighlights # EmptyHighlights)
       \/ resetPc = "w3" /\ syncedHighlights # EmptyHighlights

\* ---------------------------------------------------------------- claims
\* C1: at most one sync run is in flight at any time; a trigger arriving
\* while a run is in flight does not start a second run.
C1_AtMostOneRunInFlight == InFlight(runs) <= 1

\* C2: the scheduler holds at most one active timer, and an active timer's
\* period is the configured syncInterval (minutes, in ms).
C2_SingleTimerAtConfiguredInterval ==
    /\ Len(timers) <= 1
    /\ \A t \in 1..Len(timers) : timers[t] = syncInterval * 60 * 1000

\* C3: while syncInterval is 0 no timer tick starts a sync run.
C3_NoScheduledRunAtIntervalZero ==
    [][(syncInterval = 0 /\ TickStep) => InFlight(runs') = InFlight(runs)]_vars

\* C4: no sync run starts on a sync state that a reset has cleared only
\* in part.
C4_NoRunStartsOnPartialReset ==
    [][RunStartStep => ~PartiallyCleared]_vars

\* C5: after a confirmed reset has completed, the next run to start loads
\* the first-install sync state.
C5_RunAfterResetLoadsFirstInstall ==
    [][(resetCompleted /\ RunStartStep) => Persisted = FirstInstall]_vars

\* C6: a trigger that fires with no API key set constructs no client,
\* starts no run and leaves the persisted sync state unchanged.
C6_NoKeyNoRun ==
    [][(TriggerStep /\ omnivoreApiKey = NoKey) =>
        (runs' = runs /\ UNCHANGED syncState)]_vars

\* C7: every trigger refused for a missing API key reports an error, the
\* manual command and the timer tick alike.
C7_RefusedTriggerReportsError ==
    [][(TriggerStep /\ omnivoreApiKey = NoKey) => lastEvent'.error]_vars

\* C8: the reset writes nothing before its dialog is answered and nothing
\* at all when the answer is not OK.
C8_ResetWritesOnlyAfterOK ==
    [][(ResetStep /\ (resetPc \in {"idle", "confirm"}
                      \/ resetResult # DialogOK)) =>
        UNCHANGED syncState]_vars

\* C8 witness: a reset was cancelled and the sync state is still there.
C8_Witness ==
    /\ resetPc = "idle"
    /\ resetResult = DialogCancel
    /\ Persisted # FirstInstall

\* C6 witness: the manual command was refused while a timer exists and
\* there is sync state to lose.
C6_Witness ==
    /\ lastEvent.op = "manual"
    /\ lastEvent.error
    /\ omnivoreApiKey = NoKey
    /\ Len(timers) > 0
    /\ Persisted # FirstInstall

\* A timer tick, or the manual command, that starts a run.
ScheduledStart == TimerTick /\ InFlight(runs') = InFlight(runs) + 1
ManualStart == ManualSync /\ InFlight(runs') = InFlight(runs) + 1

\* C9: after a failed run, with a positive interval and an API key set, a
\* timer is still armed to start the next run and the manual command can
\* still start one.
C9_FailedRunKeepsTriggers ==
    (lastEvent.op = "fail" /\ syncInterval > 0 /\ omnivoreApiKey # NoKey) =>
        (ENABLED ScheduledStart /\ ENABLED ManualStart)

\* C9 witness: a run has failed while the interval is positive and a key
\* is set.
C9_Witness ==
    /\ lastEvent.op = "fail"
    /\ syncInterval > 0
    /\ omnivoreApiKey # NoKey
    /\ Len(timers) > 0

\* C10: an execution of the manual command with a non-empty API key starts
\* exactly one run, whose client is built from the key read.
C10_ManualInvokesOnce ==
    [][(ManualStep /\ omnivoreApiKey # NoKey) =>
        runs' = runs (+) SetToBag({[client |-> omnivoreApiKey,
                                    snap |-> Persisted]})]_vars

\* C10 witness: the manual command has started a run with the second key
\* while another run is in flight.
C10_Witness ==
    /\ lastEvent.op = "manual"
    /\ ~lastEvent.error
    /\ omnivoreApiKey = "k2"
    /\ InFlight(runs) = 2
    /\ \E r \in BagToSet(runs) : r.client = "k2" /\ r.snap = Persisted

\* C13: a change of a setting other than syncInterval (the API key, or
\* the plugin's own writes of the sync state) leaves the timers as they
\* were.
C13_OtherSettingKeepsTimers ==
    [][(syncInterval' = syncInterval
        /\ (omnivoreApiKey' # omnivoreApiKey \/ syncState' # syncState)) =>
        timers' = timers]_vars

\* C14: a timer tick starts a run exactly when the API key stored at that
\* tick is non-empty, with a client built from that key, and creates no
\* timer.
C14_TickReadsKeyAtTick ==
    [][TickStep =>
        /\ timers' = timers
        /\ IF omnivoreApiKey # NoKey
           THEN runs' = runs (+) SetToBag({[client |-> omnivoreApiKey,
                                           snap |-> Persisted]})
           ELSE runs' = runs]_vars

\* C14 witness: with one timer and interval 0 (so no key edit has created
\* a timer), a tick has started a run with the key stored now while a run
\* started with another key is still in flight.
C14_Witness ==
    /\ lastEvent.op = "tick"
    /\ syncInterval = 0
    /\ Len(timers) = 1
    /\ InFlight(runs) = 2
    /\ \E r \in BagToSet(runs) : r.client = omnivoreApiKey
    /\ \E r \in BagToSet(runs) : r.client # omnivoreApiKey

\* ------------------------------------------------------- heading claims
\* A string holds an empty-text link '[](target)': '[](' followed by a
\* non-empty target without ')' and a ')'.
HasEmptyLink(str) ==
    \E i \in 1..Len(str), j \in 1..Len(str) :
        /\ j >= i + 4
        /\ str[i] = "[" /\ str[i + 1] = "]" /\ str[i + 2] = "("
        /\ str[j] = ")"
        /\ \A k \in (i + 3)..(j - 1) : str[k] # ")"

\* C11: the converted heading holds no empty-text link '[](target)'.
C11_NoEmptyLinkInHeading ==
    heading.pc = "done" => ~HasEmptyLink(heading.output)

\* C12: the converted heading of a level n element is a blank-line
\* separator, n '#', one space, the cleaned content without surrounding
\* white space, and a blank-line separator.
C12_HeadingShape ==
    heading.pc = "done" =>
        \E n \in 1..6 :
            LET out == heading.output
                body == SubSeq(out, n + 4, Len(out) - 2)
                clean == cleanContent(heading.content)
            IN  /\ heading.nodeName = <<"H", DigitChars[n + 1]>>
                /\ Len(out) >= n + 5
                /\ out[1] = "\n" /\ out[2] = "\n"
                /\ \A k \in 3..(n + 2) : out[k] = "#"
                /\ out[n + 3] = " "
                /\ out[Len(out) - 1] = "\n" /\ out[Len(out)] = "\n"
                /\ body # <<>> => ~IsSpace(body[1]) /\ ~IsSpace(body[Len(body)])
                /\ \E a \in 0..Len(clean) :
                    /\ a + Len(body) <= Len(clean)
                    /\ SubSeq(clean, a + 1, a + Len(body)) = body
                    /\ \A k \in 1..Len(clean) :
                        (k <= a \/ k > a + Len(body)) => IsSpace(clean[k])

\* C12 witness: a level 6 heading whose content had a link remnant removed
\* and the white space left in front trimmed.
C12_Witness ==
    /\ heading.pc = "done"
    /\ heading.nodeName = <<"H", "6">>
    /\ heading.content = <<"[", "]", "(", "a", ")", " ", "a">>
    /\ heading.output = <<"\n", "\n", "#", "#", "#", "#", "#", "#", " ", "a",
                          "\n", "\n">>

====
